---- MODULE Spec2Model ----
(***************************************************************************)
(* A model of export-docusaurus-pdf: the page renderer's batch loop        *)
(* (PdfExporter.exportPages), the document assembler (PdfMerger.merge and  *)
(* the bookmark builder), the navigation expander (SidebarExpander), the   *)
(* link collector (LinkCollector.collectAllLinks) and the orchestrator     *)
(* (DocusaurusPdfExporter.export).                                         *)
(***************************************************************************)
EXTENDS Integers, Sequences, FiniteSets, TLC

\* ------------------------------------------------------------------ bounds
MaxUrls == 3        \* longest URL list handed to exportPages
MaxLinks == 2       \* most links collectAllLinks returns within export()
MaxArtifacts == 3   \* longest metadata list handed to merge
MaxPages == 2       \* most pages one artifact holds
MaxCards == 1       \* most document cards / content blocks on a page
MaxHeadings == 3    \* most headings over all records handed to the builder
MaxNodes == 5       \* most collapsible categories in the navigation tree
MaxCategories == 2  \* most categories on the page collectAllLinks visits
MaxAnchors == 2     \* most content-link anchors on that page
MaxStrategies == 3  \* longest configured list of click strategies

\* Heading levels: h1 to h6.
MaxLevel == 6

\* The URLs the link collector may return (two anchors may share a target).
Urls == {"u1", "u2"}

\* The heading lists extractHeadings may return for one page (levels only).
HeadingChoices == {<< >>, <<1>>, <<1, 2>>}

SeqsUpTo(S, n) == UNION {[1..k -> S] : k \in 0..n}

RECURSIVE SumSeq(_)
SumSeq(s) == IF s = << >> THEN 0 ELSE Head(s) + SumSeq(Tail(s))

VARIABLES
    \* DocusaurusPdfExporter.export
    pc,               \* position in export()
    browser,          \* this.browser: "null" | "open" | "closed"
    tempDir,          \* "null" | "exists" | "removed"
    cleanTempFiles,   \* config.cleanup.cleanTempFiles
    settled,          \* "pending" | "resolved" | "rejected"
    err,              \* the error export() is unwinding with, or "none"
    cause,            \* that error's cause property, or "none"
    opsAfterClose,    \* a page operation was issued on a closed browser
    \* PdfExporter.exportPages
    epc,              \* "idle" | "loop" | "done"
    urls,             \* the input list
    ei,               \* the loop variable i
    exportedFiles,    \* the records pushed so far
    currentPageIndex, \* the running page index
    outcomes,         \* per attempted URL: "exported" | "skipped" | "failed"
    lastPage,         \* what the page did for the URL attempted last, when
                      \* the run keeps it, else NoPage
    \* PdfMerger.merge
    mpc,              \* "idle" | "check" | "loop" | "save" | "done" | "rejected"
    metadata,         \* the records, pageIndex rewritten in place
    mi,               \* the loop variable i
    pages,            \* the output document's pages: <<artifact, page no>>
    pageOffset,       \* the running offset
    loads,            \* per artifact handled: its page count, or 0 if it failed
    outputFile,       \* "none" | "partial" | "written"
    catalogOutlines,  \* the catalog's Outlines entry: "none" | "set"
    \* PdfMerger.buildBookmarkHierarchy
    bpc,              \* "idle" | "first" | "second" | "done" | "aborted"
    bmMeta,           \* the metadata argument: records of pageIndex, headings
    bmPages,          \* pages.length
    bRec,             \* the record the first pass is at (1-based)
    bHead,            \* the headings of that record already handled
    bookmarkInfos,    \* the nodes: level, parentIndex, page (0-based indices)
    stack,            \* the level stack; -1 stands for undefined
    bi,               \* the second pass's loop variable i
    dicts,            \* per node: Parent, Prev, Next, First, Last, Count
    \* PdfMerger.createOutlines
    opc,              \* "idle" | "build" | "parents" | "catalog" |
                      \* "returned" | "caught" | "threw"
    outlinesDict,     \* the outlines root dictionary: Count, First, Last
    \* SidebarExpander
    spc,              \* "idle" | "js1" | "manual" | "walk" | "js2" | "done"
    parentOf,         \* the navigation tree: each category's parent, 0 at top
    expandedSet,      \* the categories whose class carries --active
    scopedQuirk,      \* a scoped locator lets the scope element match .level-N
    frames,           \* the call stack of the recursive pass
    anyFailure,       \* some page operation of the expander has failed
    hiddenClicked,    \* clickWithRetry was called on a control that was
                      \* still not visible after ensureVisible
    slowPage,         \* the page may apply a click's effect after the wait
                      \* that follows the click is over
    pending,          \* the node whose bulk click has not taken effect
                      \* yet, or 0
    \* SidebarExpander.clickWithRetry
    cpc,              \* "idle" | "loop" | "returned" | "threw"
    strategies,       \* config.retry.strategies
    si,               \* the loop variable i
    attempts,         \* the interactions issued: strategy, and whether it
                      \* succeeded
    \* LinkCollector.collectAllLinks
    lpc,              \* "idle" | "goto" | "waitSel" | "alt" | "count" |
                      \* "expand" | "done" | "rejected"
    anchors,          \* the page's content-link anchors in document order:
                      \* href, and the category whose list holds it (0: none)
    markersFound,     \* waitForSelector(level1): "unknown" | "yes" | "no"
    hrefs,            \* the returned list
    lerr,             \* the error collectAllLinks rejects with, or "none"
    lfail             \* the call that threw, or "none"

orchVars == <<pc, browser, tempDir, cleanTempFiles, settled, err, cause, opsAfterClose>>
exportVars == <<epc, urls, ei, exportedFiles, currentPageIndex, outcomes, lastPage>>
mergeVars == <<mpc, metadata, mi, pages, pageOffset, loads, outputFile, catalogOutlines>>
bmVars == <<bpc, bmMeta, bmPages, bRec, bHead, bookmarkInfos, stack, bi, dicts,
           opc, outlinesDict>>
sbVars == <<spc, parentOf, expandedSet, scopedQuirk, frames, anyFailure,
           hiddenClicked, slowPage, pending>>
clVars == <<cpc, strategies, si, attempts>>
lcVars == <<lpc, anchors, markersFound, hrefs, lerr, lfail>>
libVars == <<bmVars, sbVars, lcVars, clVars>>
vars == <<orchVars, exportVars, mergeVars, bmVars, sbVars, lcVars, clVars>>

\* ------------------------------------------------- PdfExporter.exportPage

\* No page behaviour is kept.
NoPage == [kept |-> FALSE]

\* What the browser page does for one URL.
PageBehaviours ==
    [gotoOk : BOOLEAN, countOk : BOOLEAN, cards : 0..MaxCards,
     blocks : 0..MaxCards, pdfOk : BOOLEAN, headings : HeadingChoices]

IsDocListPage_EqualCounts(b) == b.countOk /\ b.cards = b.blocks

\* isDocListPage: a throw of either count() is caught and answers false.
IsDocListPage(b) ==
    IF ~b.countOk THEN FALSE
    ELSE b.cards > 0 /\ b.cards = b.blocks

\* exportPage: "failed" stands for the thrown PdfExportError, "skipped" for
\* the null return, "exported" for the returned {path, headings, url}.
ExportPage(b) ==
    IF ~b.gotoOk THEN "failed"
    ELSE IF IsDocListPage(b) THEN "skipped"
    ELSE IF ~b.pdfOk THEN "failed"
    ELSE "exported"

\* ------------------------------------------------ PdfExporter.exportPages

\* The record exportPages pushes for urls[i] (i 0-based, as in `${i}.pdf`).
ExportedRecord(i, b) ==
    [path |-> i, headings |-> b.headings, url |-> urls[i + 1],
     pageIndex |-> currentPageIndex]

NextPageIndex_UrlPosition == ei + 1

\* currentPageIndex++ after a push.
NextPageIndex == currentPageIndex + 1

OnExportThrow_Rethrow == "rejected"

\* The catch block: warn and continue, so the loop goes on.
OnExportThrow == "loop"

\* One iteration of the for loop on a page that behaves as b: exportPage,
\* the push, the catch.
ExportPagesStepOn(b) ==
    /\ epc = "loop"
    /\ ei < Len(urls)
    /\ LET r == ExportPage(b) IN
         /\ outcomes' = Append(outcomes, r)
         /\ IF r = "exported"
            THEN /\ exportedFiles' = Append(exportedFiles, ExportedRecord(ei, b))
                 /\ currentPageIndex' = NextPageIndex
            ELSE UNCHANGED <<exportedFiles, currentPageIndex>>
         /\ epc' = IF r = "failed" THEN OnExportThrow ELSE epc
    /\ ei' = ei + 1
    /\ opsAfterClose' = (opsAfterClose \/ browser = "closed")
    /\ UNCHANGED urls
    /\ UNCHANGED <<pc, browser, tempDir, cleanTempFiles, settled, err, cause>>
    /\ UNCHANGED mergeVars
    /\ UNCHANGED libVars

ExportPagesStep ==
    \E b \in PageBehaviours : ExportPagesStepOn(b) /\ UNCHANGED lastPage

\* The same iteration, the page's behaviour kept for inspection.
ExportPagesStepKept ==
    \E b \in PageBehaviours : ExportPagesStepOn(b) /\ lastPage' = b

\* The loop ends and exportPages returns exportedFiles.
ExportPagesReturn ==
    /\ epc = "loop"
    /\ ei >= Len(urls)
    /\ epc' = "done"
    /\ UNCHANGED <<urls, ei, exportedFiles, currentPageIndex, outcomes, lastPage>>
    /\ UNCHANGED orchVars
    /\ UNCHANGED mergeVars
    /\ UNCHANGED libVars

\* --------------------------------------------------------- PdfMerger.merge

\* What loading and copying one artifact gives: its page count, or 0 when
\* PDFDocument.load or copyPages throws.
LoadResults == 0..MaxPages

\* The copied pages of metadata[k], n of them, each tagged with its artifact.
CopiedPages(k, n) == [j \in 1..n |-> <<metadata[k].path, j>>]

RewrittenPageIndex_Kept == metadata[mi + 1].pageIndex

\* meta.pageIndex = pageOffset
RewrittenPageIndex == pageOffset

OnLoadThrow_Rethrow == "rejected"

\* The inner catch block: warn and continue with the next file.
OnLoadThrow == "loop"

\* pageOffset += copiedPages.length
AdvanceOffset(n) == pageOffset + n

EmptyInput_Never == FALSE

\* !metadata || metadata.length === 0
EmptyInput == Len(metadata) = 0

\* The guard at the head of merge; the throw precedes the try block.
MergeCheck ==
    /\ mpc = "check"
    /\ IF EmptyInput
       THEN mpc' = "rejected"
       ELSE mpc' = "loop"
    /\ UNCHANGED <<metadata, mi, pages, pageOffset, loads, outputFile, catalogOutlines>>
    /\ UNCHANGED orchVars
    /\ UNCHANGED exportVars
    /\ UNCHANGED libVars

\* One iteration of the merge loop: load, copyPages, the rewrite of
\* pageIndex, the advance of the offset, addPage for every copied page; a
\* throw of load or copyPages is caught and the loop continues.
MergeArtifact ==
    /\ mpc = "loop"
    /\ mi < Len(metadata)
    /\ \E n \in LoadResults :
         /\ loads' = Append(loads, n)
         /\ IF n = 0
            THEN UNCHANGED <<metadata, pages, pageOffset>>
            ELSE /\ metadata' = [metadata EXCEPT ![mi + 1].pageIndex = RewrittenPageIndex]
                 /\ pageOffset' = AdvanceOffset(n)
                 /\ pages' = pages \o CopiedPages(mi + 1, n)
         /\ mpc' = IF n = 0 THEN OnLoadThrow ELSE mpc
    /\ mi' = mi + 1
    /\ UNCHANGED <<outputFile, catalogOutlines>>
    /\ UNCHANGED orchVars
    /\ UNCHANGED exportVars
    /\ UNCHANGED libVars

\* The loop is over: the outline block is commented out, so the catalog is
\* left as it is; then ensureDirectoryExists, save, writeFileSync.
MergeLoopEnd ==
    /\ mpc = "loop"
    /\ mi >= Len(metadata)
    /\ mpc' = "save"
    /\ UNCHANGED <<metadata, mi, pages, pageOffset, loads, outputFile, catalogOutlines>>
    /\ UNCHANGED orchVars
    /\ UNCHANGED exportVars
    /\ UNCHANGED libVars

\* ensureDirectoryExists, pdfDoc.save and fs.writeFileSync; any throw is
\* rethrown as PdfMergeError. A failing write may leave a partial file.
MergeSave ==
    /\ mpc = "save"
    /\ \E r \in {"ok", "mkdirFail", "saveFail", "writeFail", "writePartial"} :
         /\ mpc' = IF r = "ok" THEN "done" ELSE "rejected"
         /\ outputFile' = CASE r = "ok" -> "written"
                            [] r = "writePartial" -> "partial"
                            [] OTHER -> outputFile
    /\ UNCHANGED <<metadata, mi, pages, pageOffset, loads, catalogOutlines>>
    /\ UNCHANGED orchVars
    /\ UNCHANGED exportVars
    /\ UNCHANGED libVars

\* ------------------------------------------ PdfMerger.buildBookmarkHierarchy

\* Node and stack indices are 0-based as in the source; -1 stands for
\* undefined (a hole of the stack, an unset dictionary entry, no parent).
Undef == 0 - 1

\* stack[parentLevel] !== undefined, with parentLevel = level - 2; the slot of
\* level L is the sequence's L-th element.
DefinedAt(st, slot) == slot >= 1 /\ slot <= Len(st) /\ st[slot] # Undef

\* Determine parent index: the stack's entry one level up, if any.
ParentIndex(st, level) ==
    IF level > 1 /\ DefinedAt(st, level - 1) THEN st[level - 1] ELSE Undef

\* stack[level - 1] = v; assigning past the end lengthens the array and
\* leaves holes.
StackSet(st, level, v) ==
    [k \in 1..(IF level > Len(st) THEN level ELSE Len(st)) |->
        IF k = level THEN v
        ELSE IF k <= Len(st) THEN st[k] ELSE Undef]

ClearDeeper_Keep(st, level) == st

\* Clear deeper levels: stack[i] = undefined for i from level to the end.
ClearDeeper(st, level) ==
    [k \in 1..Len(st) |-> IF k > level THEN Undef ELSE st[k]]

\* The node pushed for a heading of `level` on page `page`.
BookmarkInfo(infos, st, level, page) ==
    [level |-> level, parentIndex |-> ParentIndex(st, level),
     index |-> Len(infos), page |-> page]

\* The stack after the heading's node, of index idx, is created.
UpdateStack(st, level, idx) == ClearDeeper(StackSet(st, level, idx), level)

\* A dictionary as the first pass registers it: Title and Dest only.
NewDict == [Parent |-> Undef, Prev |-> Undef, Next |-> Undef,
            First |-> Undef, Last |-> Undef, Count |-> 0]

\* First pass, one step: a record whose pageIndex is out of range is skipped
\* whole; otherwise the record's next heading becomes a node.
BmFirstPass ==
    /\ bpc = "first"
    /\ bRec <= Len(bmMeta)
    /\ LET meta == bmMeta[bRec] IN
       IF meta.pageIndex >= bmPages \/ bHead >= Len(meta.headings)
       THEN /\ bRec' = bRec + 1
            /\ bHead' = 0
            /\ UNCHANGED <<bookmarkInfos, stack, dicts>>
       ELSE LET level == meta.headings[bHead + 1] IN
            /\ bookmarkInfos' =
                 Append(bookmarkInfos,
                        BookmarkInfo(bookmarkInfos, stack, level, meta.pageIndex))
            /\ stack' = UpdateStack(stack, level, Len(bookmarkInfos))
            /\ dicts' = Append(dicts, NewDict)
            /\ bHead' = bHead + 1
            /\ UNCHANGED bRec
    /\ UNCHANGED <<bpc, bmMeta, bmPages, bi, opc, outlinesDict>>
    /\ UNCHANGED <<orchVars, exportVars, mergeVars, clVars, sbVars, lcVars>>

\* The first loop is over; the second pass starts at i = 0.
BmFirstPassEnd ==
    /\ bpc = "first"
    /\ bRec > Len(bmMeta)
    /\ bpc' = "second"
    /\ bi' = 0
    /\ UNCHANGED <<bmMeta, bmPages, bRec, bHead, bookmarkInfos, stack, dicts>>
    /\ UNCHANGED <<opc, outlinesDict>>
    /\ UNCHANGED <<orchVars, exportVars, mergeVars, clVars, sbVars, lcVars>>

ParentAfterChild_LastOnce(d, i) ==
    [d EXCEPT !.First = IF d.First = Undef THEN i ELSE d.First,
              !.Last = IF d.First = Undef THEN i ELSE d.Last,
              !.Count = d.Count + 1]

\* Update parent's First/Last/Count for its child i.
ParentAfterChild(d, i) ==
    [d EXCEPT !.First = IF d.First = Undef THEN i ELSE d.First,
              !.Last = i,
              !.Count = d.Count + 1]

\* Find previous bookmark at same level: the nearest j < i with the same
\* level and the same parentIndex, or Undef.
PrevSibling(infos, i) ==
    LET cands == {j \in 0..(i - 1) :
                    /\ infos[j + 1].level = infos[i + 1].level
                    /\ infos[j + 1].parentIndex = infos[i + 1].parentIndex}
    IN IF cands = {} THEN Undef
       ELSE CHOOSE j \in cands : \A k \in cands : k <= j

\* Second pass, the body for node i: set Parent and the parent's aggregate
\* fields, then link to the previous sibling.
LinkBookmark(ds, infos, i) ==
    LET p == infos[i + 1].parentIndex
        d1 == IF p >= 0
              THEN [ds EXCEPT ![i + 1].Parent = p,
                              ![p + 1] = ParentAfterChild(ds[p + 1], i)]
              ELSE ds
        j == PrevSibling(infos, i)
    IN IF j # Undef
       THEN [d1 EXCEPT ![i + 1].Prev = j, ![j + 1].Next = i]
       ELSE d1

BmSecondPass ==
    /\ bpc = "second"
    /\ bi < Len(bookmarkInfos)
    /\ dicts' = LinkBookmark(dicts, bookmarkInfos, bi)
    /\ bi' = bi + 1
    /\ UNCHANGED <<bpc, bmMeta, bmPages, bRec, bHead, bookmarkInfos, stack>>
    /\ UNCHANGED <<opc, outlinesDict>>
    /\ UNCHANGED <<orchVars, exportVars, mergeVars, clVars, sbVars, lcVars>>

\* The 0-based indices, in order, of the nodes that are roots.
RECURSIVE RootsFrom(_, _)
RootsFrom(infos, from) ==
    IF from > Len(infos) THEN << >>
    ELSE IF infos[from].level = 1 \/ infos[from].parentIndex = 0 - 1
         THEN <<from - 1>> \o RootsFrom(infos, from + 1)
         ELSE RootsFrom(infos, from + 1)

\* Return only root bookmarks (level 1 or no parent), in order.
RootBookmarks(infos) ==
    RootsFrom(infos, 1)

BmReturn ==
    /\ bpc = "second"
    /\ bi >= Len(bookmarkInfos)
    /\ bpc' = "done"
    /\ UNCHANGED <<bmMeta, bmPages, bRec, bHead, bookmarkInfos, stack, bi, dicts>>
    /\ UNCHANGED <<opc, outlinesDict>>
    /\ UNCHANGED <<orchVars, exportVars, mergeVars, clVars, sbVars, lcVars>>

\* The headings the first pass visits, in order, each with its record's
\* pageIndex: the records in range, their headings concatenated.
RECURSIVE FlatHeadings(_, _, _)
FlatHeadings(meta, numPages, r) ==
    IF r > Len(meta) THEN << >>
    ELSE (IF meta[r].pageIndex >= numPages THEN << >>
          ELSE [h \in 1..Len(meta[r].headings) |->
                   [level |-> meta[r].headings[h], page |-> meta[r].pageIndex]])
         \o FlatHeadings(meta, numPages, r + 1)

\* The first pass over a flat heading list, from its k-th heading on.
RECURSIVE FirstPassFrom(_, _, _, _)
FirstPassFrom(infos, st, flat, k) ==
    IF k > Len(flat) THEN infos
    ELSE FirstPassFrom(
           Append(infos, BookmarkInfo(infos, st, flat[k].level, flat[k].page)),
           UpdateStack(st, flat[k].level, Len(infos)), flat, k + 1)

\* The second pass from node i on.
RECURSIVE SecondPassFrom(_, _, _)
SecondPassFrom(ds, infos, i) ==
    IF i >= Len(infos) THEN ds
    ELSE SecondPassFrom(LinkBookmark(ds, infos, i), infos, i + 1)

\* buildBookmarkHierarchy as a whole: the nodes and their dictionaries.
BuildInfos(meta, numPages) ==
    FirstPassFrom(<< >>, << >>, FlatHeadings(meta, numPages, 1), 1)

BuildDicts(meta, numPages) ==
    LET infos == BuildInfos(meta, numPages) IN
    SecondPassFrom([k \in 1..Len(infos) |-> NewDict], infos, 0)

\* --------------------------------------------------- PdfMerger.createOutlines

\* The reference of the registered outlines dictionary, as a Parent value.
OutlinesRef == 0 - 2

\* No outlines dictionary has been created.
NoOutlines == [Count |-> 0, First |-> Undef, Last |-> Undef]

\* Filter root bookmarks: of the returned dictionaries, those with no Parent.
RECURSIVE WithoutParent(_, _, _)
WithoutParent(ds, roots, k) ==
    IF k > Len(roots) THEN << >>
    ELSE (IF ds[roots[k] + 1].Parent = Undef THEN <<roots[k]>> ELSE << >>)
         \o WithoutParent(ds, roots, k + 1)

OnOutlineThrow_Rethrow == "threw"

\* catch (err): warn and debug, no rethrow; the function returns.
OnOutlineThrow == "caught"

\* A call inside the try block throws, in buildBookmarkHierarchy or after
\* it, before the catalog entry is set.
CoThrow ==
    /\ opc \in {"build", "parents", "catalog"}
    /\ opc' = OnOutlineThrow
    /\ bpc' = IF bpc \in {"first", "second"} THEN "aborted" ELSE bpc
    /\ UNCHANGED <<bmMeta, bmPages, bRec, bHead, bookmarkInfos, stack, bi,
                   dicts, outlinesDict>>
    /\ UNCHANGED <<orchVars, exportVars, mergeVars, clVars, sbVars, lcVars>>

\* buildBookmarkHierarchy has returned: return when it gave no bookmark or
\* the filter leaves none, else create the outlines root dictionary with
\* Count, First and Last.
CoRoots ==
    /\ opc = "build"
    /\ bpc = "done"
    /\ LET allBookmarks == RootBookmarks(bookmarkInfos)
           rootBookmarks == WithoutParent(dicts, allBookmarks, 1)
       IN IF Len(allBookmarks) = 0 \/ Len(rootBookmarks) = 0
          THEN /\ opc' = "returned"
               /\ UNCHANGED outlinesDict
          ELSE /\ outlinesDict' = [Count |-> Len(rootBookmarks),
                                   First |-> rootBookmarks[1],
                                   Last |-> rootBookmarks[Len(rootBookmarks)]]
               /\ opc' = "parents"
    /\ UNCHANGED <<bpc, bmMeta, bmPages, bRec, bHead, bookmarkInfos, stack, bi,
                   dicts>>
    /\ UNCHANGED <<orchVars, exportVars, mergeVars, clVars, sbVars, lcVars>>

\* Update root bookmarks to point to outlines as parent.
CoParents ==
    /\ opc = "parents"
    /\ LET rootBookmarks ==
               WithoutParent(dicts, RootBookmarks(bookmarkInfos), 1)
           rs == {rootBookmarks[k] : k \in 1..Len(rootBookmarks)}
       IN dicts' = [k \in 1..Len(dicts) |->
                      IF (k - 1) \in rs
                      THEN [dicts[k] EXCEPT !.Parent = OutlinesRef]
                      ELSE dicts[k]]
    /\ opc' = "catalog"
    /\ UNCHANGED <<bpc, bmMeta, bmPages, bRec, bHead, bookmarkInfos, stack, bi,
                   outlinesDict>>
    /\ UNCHANGED <<orchVars, exportVars, mergeVars, clVars, sbVars, lcVars>>

\* Set outlines in catalog; the function returns.
CoCatalog ==
    /\ opc = "catalog"
    /\ catalogOutlines' = "set"
    /\ opc' = "returned"
    /\ UNCHANGED <<mpc, metadata, mi, pages, pageOffset, loads, outputFile>>
    /\ UNCHANGED <<bpc, bmMeta, bmPages, bRec, bHead, bookmarkInfos, stack, bi,
                   dicts, outlinesDict>>
    /\ UNCHANGED <<orchVars, exportVars, clVars, sbVars, lcVars>>

\* -------------------------------------------------------- SidebarExpander

\* The navigation tree is a forest of collapsible categories numbered in
\* document order; parentOf[n] is n's parent category, 0 for a top-level
\* one. A category's class carries --active ("expanded") iff it is in
\* expandedSet; it is in the DOM iff every ancestor of it is expanded.
NavNodes == 1..Len(parentOf)

RECURSIVE NavAncestors(_, _)
NavAncestors(p, n) ==
    IF p[n] = 0 THEN {} ELSE {p[n]} \cup NavAncestors(p, p[n])

\* The N of the node's theme-doc-sidebar-item-category-level-N class.
NavDepth(n) == Cardinality(NavAncestors(parentOf, n)) + 1

InDom(exp, n) == NavAncestors(parentOf, n) \subseteq exp

\* The elements of a set of numbers in increasing order.
RECURSIVE InOrder(_)
InOrder(S) ==
    IF S = {} THEN << >>
    ELSE LET lo == CHOOSE x \in S : \A y \in S : x <= y
         IN <<lo>> \o InOrder(S \ {lo})

\* page.locator(selectors.level1): the top-level categories' collapsibles.
LocateLevel1(exp) == InOrder({c \in NavNodes : parentOf[c] = 0})

\* parent.locator(".theme-doc-sidebar-item-category-level-<level+1>
\* .menu__list-item-collapsible") with parent the <li> of category x: every
\* collapsible in the DOM under that <li> that has a category of level
\* level+1 above it (a descendant selector, so every deeper one as well).
\* Whether the <li> itself may serve as that level-(level+1) ancestor is the
\* selector engine's choice (scopedQuirk). x = 0: the parent was not found.
LocateSub(exp, x, level) ==
    IF x = 0 \/ ~InDom(exp, x) THEN << >>
    ELSE InOrder({c \in NavNodes :
                    /\ InDom(exp, c)
                    /\ NavDepth(c) >= level + 1
                    /\ IF scopedQuirk
                       THEN c = x \/ x \in NavAncestors(parentOf, c)
                       ELSE /\ x \in NavAncestors(parentOf, c)
                            /\ level + 1 > NavDepth(x)})

\* The element frame k's subItem.nth(i) denotes now; locators are resolved
\* anew at every use, against the DOM as it is. Frame 1 is the loop of
\* expandAllManually, frame k > 1 a call of expandSubSidebar whose parent
\* is the <li> of the caller's current item. 0: no such element. (The
\* singleton sets bind the parent and the list as values, so that each is
\* resolved once.)
RECURSIVE ItemAt(_, _, _)
ItemAt(fs, exp, k) ==
    LET lists == IF k = 1 THEN {LocateLevel1(exp)}
                 ELSE {LocateSub(exp, x, fs[k].level) :
                          x \in {ItemAt(fs, exp, k - 1)}}
    IN CHOOSE r \in {IF fs[k].i + 1 <= Len(list) THEN list[fs[k].i + 1] ELSE 0 :
                       list \in lists} : TRUE

\* A click on a category toggles it; the callers click collapsed ones.
Clicked(exp, x) == IF x \in exp THEN exp \ {x} ELSE exp \cup {x}

\* expandAllWithJavaScript: one click on every collapsible in the DOM whose
\* class lacks --active; a throw of evaluate is caught.
BulkExpanded(exp) == exp \cup {c \in NavNodes : InDom(exp, c)}

\* The nodes a bulk pass clicks: those in the DOM without --active.
BulkClicked(exp) == {c \in NavNodes : InDom(exp, c) /\ c \notin exp}

\* The clicked nodes of which one may still be unchanged when the fixed wait
\* of the bulk pass (animation * 2) is over; 0: none is.
LateChoices(exp) ==
    IF slowPage /\ pending = 0 THEN {0} \cup BulkClicked(exp) ELSE {0}

SbBulk ==
    /\ spc \in {"js1", "js2"}
    /\ \E ok \in BOOLEAN :
         /\ anyFailure' = (anyFailure \/ ~ok)
         /\ IF ok
            THEN \E late \in LateChoices(expandedSet) :
                   /\ expandedSet' = BulkExpanded(expandedSet) \ {late}
                   /\ pending' = IF late = 0 THEN pending ELSE late
            ELSE UNCHANGED <<expandedSet, pending>>
    /\ spc' = IF spc = "js1" THEN "manual" ELSE "done"
    /\ UNCHANGED <<parentOf, scopedQuirk, frames, hiddenClicked, slowPage>>
    /\ UNCHANGED <<orchVars, exportVars, mergeVars, clVars, bmVars, lcVars>>

\* expandAllManually up to its loop: ulItem.count(), outside any try.
SbManualStart ==
    /\ spc = "manual"
    /\ \E ok \in BOOLEAN :
         IF ok
         THEN /\ frames' = <<[level |-> 0,
                              count |-> Len(LocateLevel1(expandedSet)), i |-> 0]>>
              /\ spc' = "walk"
              /\ UNCHANGED anyFailure
         ELSE /\ spc' = "rejected"
              /\ anyFailure' = TRUE
              /\ UNCHANGED frames
    /\ UNCHANGED <<parentOf, expandedSet, scopedQuirk, hiddenClicked, slowPage, pending>>
    /\ UNCHANGED <<orchVars, exportVars, mergeVars, clVars, bmVars, lcVars>>

\* The page applies the effect of a click it had delayed: the node toggles.
\* This happens on the page's own schedule while expandAll runs.
SbLateEffect ==
    /\ spc \in {"manual", "walk", "js2"}
    /\ pending # 0
    /\ expandedSet' = Clicked(expandedSet, pending)
    /\ pending' = 0
    /\ UNCHANGED <<spc, parentOf, scopedQuirk, frames, anyFailure, hiddenClicked, slowPage>>
    /\ UNCHANGED <<orchVars, exportVars, mergeVars, clVars, bmVars, lcVars>>

\* The frames after expandSubSidebar(<li> of the current item, level + 1) is
\* entered in DOM state exp: a count of 0 returns at once, and the caller
\* moves to its next item.
Called(fs, exp) ==
    LET k == Len(fs)
        lvl == fs[k].level + 1
        cnt == Len(LocateSub(exp, ItemAt(fs, exp, k), lvl))
    IN IF cnt = 0
       THEN [fs EXCEPT ![k].i = fs[k].i + 1]
       ELSE Append(fs, [level |-> lvl, count |-> cnt, i |-> 0])

Skipped_Stay(fs) == fs

Skipped_Abort(fs) == [fs EXCEPT ![Len(fs)].i = fs[Len(fs)].count]

\* continue: the loop moves to its next item.
Skipped(fs) == [fs EXCEPT ![Len(fs)].i = fs[Len(fs)].i + 1]

\* await this.expandSubSidebar(...): a throw of subItem.count() is caught by
\* the callee's outer try, which returns, and the caller moves on.
Recursed(fs, exp, countOk) == IF countOk THEN Called(fs, exp) ELSE Skipped(fs)

\* One item of a loop (expandAllManually's or expandSubSidebar's): read the
\* class; recurse if it is active; otherwise check visibility (the top-level
\* loop ignores the answer), click with retry, wait, recurse.
SbItem ==
    /\ spc = "walk"
    /\ LET k == Len(frames)
           x == ItemAt(frames, expandedSet, k)
       IN /\ frames[k].i < frames[k].count
          /\ IF x # 0 /\ x \in expandedSet
             THEN \E countOk \in BOOLEAN :
                    /\ frames' = Recursed(frames, expandedSet, countOk)
                    /\ anyFailure' = (anyFailure \/ ~countOk)
                    /\ UNCHANGED <<expandedSet, hiddenClicked>>
             ELSE \E visible \in BOOLEAN, clickOk \in BOOLEAN, countOk \in BOOLEAN :
                    /\ x = 0 => ~visible /\ ~clickOk
                    /\ hiddenClicked' = (hiddenClicked \/ (k = 1 /\ ~visible))
                    /\ IF (k > 1 /\ ~visible) \/ ~clickOk
                       THEN /\ frames' = Skipped(frames)
                            /\ anyFailure' = TRUE
                            /\ UNCHANGED expandedSet
                       ELSE /\ expandedSet' = Clicked(expandedSet, x)
                            /\ frames' = Recursed(frames, Clicked(expandedSet, x), countOk)
                            /\ anyFailure' = (anyFailure \/ ~visible \/ ~countOk)
    /\ UNCHANGED <<spc, parentOf, scopedQuirk, slowPage, pending>>
    /\ UNCHANGED <<orchVars, exportVars, mergeVars, clVars, bmVars, lcVars>>

\* A loop is over: expandSubSidebar returns to its caller, which moves to
\* its next item; the end of expandAllManually's loop starts the last bulk
\* pass.
SbReturn ==
    /\ spc = "walk"
    /\ frames[Len(frames)].i >= frames[Len(frames)].count
    /\ IF Len(frames) = 1
       THEN /\ frames' = << >>
            /\ spc' = "js2"
       ELSE /\ frames' = Skipped(SubSeq(frames, 1, Len(frames) - 1))
            /\ UNCHANGED spc
    /\ UNCHANGED <<parentOf, expandedSet, scopedQuirk, anyFailure>>
    /\ UNCHANGED <<hiddenClicked, slowPage, pending>>
    /\ UNCHANGED <<orchVars, exportVars, mergeVars, clVars, bmVars, lcVars>>

\* ------------------------------------------ SidebarExpander.clickWithRetry

\* The names the switch statement has a case for.
KnownStrategies == {"click", "forceClick", "javascriptClick"}

\* What a configuration may list: the known names, and any other string.
StrategyNames == KnownStrategies \cup {"other"}

\* One iteration of the loop over the strategies. A known strategy issues
\* its interaction and returns if that succeeds; if it throws, the catch
\* block rethrows at the last index and goes on otherwise. A name without a
\* case issues nothing and the loop goes on.
ClickTry ==
    /\ cpc = "loop"
    /\ si < Len(strategies)
    /\ IF strategies[si + 1] \in KnownStrategies
       THEN \E ok \in BOOLEAN :
              /\ attempts' = Append(attempts, [strategy |-> si + 1, ok |-> ok])
              /\ cpc' = IF ok THEN "returned"
                        ELSE IF si = Len(strategies) - 1 THEN "threw"
                        ELSE "loop"
              /\ si' = IF ok \/ si = Len(strategies) - 1 THEN si ELSE si + 1
       ELSE /\ si' = si + 1
            /\ UNCHANGED <<cpc, attempts>>
    /\ UNCHANGED strategies
    /\ UNCHANGED <<orchVars, exportVars, mergeVars, bmVars, sbVars, lcVars>>

\* The loop is over without a return or a throw: the function returns.
ClickLoopEnd ==
    /\ cpc = "loop"
    /\ si >= Len(strategies)
    /\ cpc' = "returned"
    /\ UNCHANGED <<strategies, si, attempts>>
    /\ UNCHANGED <<orchVars, exportVars, mergeVars, bmVars, sbVars, lcVars>>

\* ------------------------------------------ LinkCollector.collectAllLinks

\* An anchor is in the DOM iff the list of its category is: the category and
\* every ancestor of it are expanded. An anchor outside every category
\* always is.
AnchorInDom(exp, a) ==
    a.under = 0 \/ (a.under \in exp /\ InDom(exp, a.under))

\* page.$$eval(selectors.link, as => as.map(a => a.href)): the href of
\* every matching anchor of the DOM, in document order.
Hrefs(exp) ==
    LET found == SelectSeq(anchors, LAMBDA a : AnchorInDom(exp, a))
    IN [k \in 1..Len(found) |-> found[k].href]

\* collectAllLinks rejects with error e, thrown by call f.
LcThrow(e, f) ==
    /\ lerr' = e
    /\ lfail' = f
    /\ lpc' = "rejected"

\* page.goto(baseUrl) and the first waitForTimeout, outside any try.
LcGoto ==
    /\ lpc = "goto"
    /\ \E ok \in BOOLEAN :
         IF ok THEN lpc' = "waitSel" /\ UNCHANGED <<lerr, lfail>>
         ELSE LcThrow("Error", "goto")
    /\ UNCHANGED <<anchors, markersFound, hrefs>>
    /\ UNCHANGED <<orchVars, exportVars, mergeVars, clVars, bmVars, sbVars>>

OnMarkersTimeout_Expand == "count"

\* The catch block around waitForSelector: return collectLinksAlternative().
OnMarkersTimeout == "alt"

\* waitForSelector(selectors.level1): it resolves only if a top-level
\* category is there, and may time out even then.
LcWaitForSelector ==
    /\ lpc = "waitSel"
    /\ \E found \in BOOLEAN :
         /\ found => Len(LocateLevel1(expandedSet)) > 0
         /\ markersFound' = IF found THEN "yes" ELSE "no"
         /\ lpc' = IF found THEN "count" ELSE OnMarkersTimeout
    /\ UNCHANGED <<anchors, hrefs, lerr, lfail>>
    /\ UNCHANGED <<orchVars, exportVars, mergeVars, clVars, bmVars, sbVars>>

\* collectLinksAlternative: $$eval over the whole document; a throw is
\* rethrown as LinkCollectionError.
CollectLinksAlternative ==
    /\ lpc = "alt"
    /\ \E ok \in BOOLEAN :
         IF ok
         THEN /\ hrefs' = Hrefs(expandedSet)
              /\ lpc' = "done"
              /\ UNCHANGED <<lerr, lfail>>
         ELSE /\ LcThrow("LinkCollectionError", "extract")
              /\ UNCHANGED hrefs
    /\ UNCHANGED <<anchors, markersFound>>
    /\ UNCHANGED <<orchVars, exportVars, mergeVars, clVars, bmVars, sbVars>>

\* ulItem.count(), outside any try, then expandAll is entered.
LcEnterExpandAll ==
    /\ lpc = "count"
    /\ \E ok \in BOOLEAN :
         IF ok
         THEN /\ lpc' = "expand"
              /\ spc' = "js1"
              /\ UNCHANGED <<lerr, lfail>>
         ELSE /\ LcThrow("Error", "count")
              /\ UNCHANGED spc
    /\ UNCHANGED <<anchors, markersFound, hrefs>>
    /\ UNCHANGED <<parentOf, expandedSet, scopedQuirk, frames, anyFailure>>
    /\ UNCHANGED <<hiddenClicked, slowPage, pending>>
    /\ UNCHANGED <<orchVars, exportVars, mergeVars, clVars, bmVars>>

\* expandAll has settled: its rejection propagates; otherwise waitForTimeout
\* and the $$eval of the anchors, a throw of either propagating as it is.
LcExtract ==
    /\ lpc = "expand"
    /\ spc \in {"done", "rejected"}
    /\ IF spc = "rejected"
       THEN /\ LcThrow("Error", "expandAll")
            /\ UNCHANGED hrefs
       ELSE \E r \in {"ok", "wait", "extract"} :
              IF r = "ok"
              THEN /\ hrefs' = Hrefs(expandedSet)
                   /\ lpc' = "done"
                   /\ UNCHANGED <<lerr, lfail>>
              ELSE /\ LcThrow("Error", r)
                   /\ UNCHANGED hrefs
    /\ UNCHANGED <<anchors, markersFound>>
    /\ UNCHANGED <<orchVars, exportVars, mergeVars, clVars, bmVars, sbVars>>

\* -------------------------------------------- DocusaurusPdfExporter.export

\* Unwinding with error e whose cause property is c ("none": the error is
\* not a wrapper): the catch block rethrows, the finally block runs.
Throw(e, c) ==
    /\ err' = e
    /\ cause' = c
    /\ pc' = "finally"

\* initialize: chromium.launch, newContext, newPage. A throw of launch leaves
\* this.browser null; a throw of newContext or newPage leaves it launched.
Initialize ==
    /\ pc = "start"
    /\ \E r \in {"ok", "launchFail", "contextFail"} :
         /\ browser' = IF r = "launchFail" THEN "null" ELSE "open"
         /\ IF r = "ok"
            THEN pc' = "verify" /\ UNCHANGED <<err, cause>>
            ELSE Throw("Error", "none")
    /\ UNCHANGED <<tempDir, cleanTempFiles, settled, opsAfterClose>>
    /\ UNCHANGED <<exportVars, mergeVars, libVars>>

OnVerifyThrow_Swallow == "mktemp"

\* The catch block of verifyDocusaurusRunning throws, so export unwinds.
OnVerifyThrow == "finally"

\* verifyDocusaurusRunning: page.goto; a throw is wrapped in an ExportError
\* whose cause is the navigation error.
VerifyDocusaurusRunning ==
    /\ pc = "verify"
    /\ \E ok \in BOOLEAN :
         IF ok THEN pc' = "mktemp" /\ UNCHANGED <<err, cause>>
         ELSE /\ err' = "ExportError"
              /\ cause' = "navigation"
              /\ pc' = OnVerifyThrow
    /\ opsAfterClose' = (opsAfterClose \/ browser = "closed")
    /\ UNCHANGED <<browser, tempDir, cleanTempFiles, settled>>
    /\ UNCHANGED <<exportVars, mergeVars, libVars>>

\* resolveOutputPath (pure) and createTempDirectory; mkdirSync may throw.
CreateTempDirectory ==
    /\ pc = "mktemp"
    /\ \E ok \in BOOLEAN :
         IF ok THEN /\ tempDir' = "exists"
                    /\ pc' = "collect"
                    /\ UNCHANGED <<err, cause>>
         ELSE /\ UNCHANGED tempDir
              /\ Throw("Error", "none")
    /\ UNCHANGED <<browser, cleanTempFiles, settled, opsAfterClose>>
    /\ UNCHANGED <<exportVars, mergeVars, libVars>>

\* collectAllLinks: it rejects (an untyped navigation error, or a
\* LinkCollectionError) or returns the anchors' targets; exportPages is then
\* entered with them.
CollectAllLinks ==
    /\ pc = "collect"
    /\ \/ \E e \in {"Error", "LinkCollectionError"} :
            /\ Throw(e, IF e = "Error" THEN "none" ELSE "evaluate")
            /\ UNCHANGED exportVars
       \/ \E links \in SeqsUpTo(Urls, MaxLinks) :
            /\ urls' = links
            /\ epc' = "loop"
            /\ pc' = "exportPages"
            /\ UNCHANGED <<err, cause, ei, exportedFiles, currentPageIndex, outcomes>>
    /\ UNCHANGED lastPage
    /\ opsAfterClose' = (opsAfterClose \/ browser = "closed")
    /\ UNCHANGED <<browser, tempDir, cleanTempFiles, settled>>
    /\ UNCHANGED <<mergeVars, libVars>>

NothingExported_AnyLoss == Len(exportedFiles) < Len(urls)

\* exportedFiles.length === 0
NothingExported == Len(exportedFiles) = 0

\* exportPages has returned: zero exported pages is fatal (an ExportError
\* built without a cause), otherwise merge is entered with the exported
\* records.
AfterExportPages ==
    /\ pc = "exportPages"
    /\ epc = "done"
    /\ IF NothingExported
       THEN /\ Throw("ExportError", "none")
            /\ UNCHANGED <<mpc, metadata>>
       ELSE /\ metadata' = exportedFiles
            /\ mpc' = "check"
            /\ pc' = "merge"
            /\ UNCHANGED <<err, cause>>
    /\ UNCHANGED <<browser, tempDir, cleanTempFiles, settled, opsAfterClose>>
    /\ UNCHANGED <<mi, pages, pageOffset, loads, outputFile, catalogOutlines>>
    /\ UNCHANGED <<exportVars, libVars>>

\* merge has settled: a rejection unwinds, a return goes on to the cleanup.
AfterMerge ==
    /\ pc = "merge"
    /\ mpc \in {"done", "rejected"}
    /\ IF mpc = "rejected"
       THEN Throw("PdfMergeError", IF EmptyInput THEN "none" ELSE "write")
       ELSE pc' = "cleanup" /\ UNCHANGED <<err, cause>>
    /\ UNCHANGED <<browser, tempDir, cleanTempFiles, settled, opsAfterClose>>
    /\ UNCHANGED <<exportVars, mergeVars, libVars>>

\* removeDirectory: existsSync, then rmSync, which may throw.
RemoveDirectory(ok) == IF ok THEN "removed" ELSE tempDir

\* Step 4, reached only when merge returned: removeDirectory if configured,
\* then return fullPath.
Cleanup ==
    /\ pc = "cleanup"
    /\ IF cleanTempFiles
       THEN \E ok \in BOOLEAN :
              /\ tempDir' = RemoveDirectory(ok)
              /\ IF ok THEN pc' = "finally" /\ UNCHANGED <<err, cause>>
                 ELSE Throw("Error", "none")
       ELSE /\ pc' = "finally"
            /\ UNCHANGED <<tempDir, err, cause>>
    /\ UNCHANGED <<browser, cleanTempFiles, settled, opsAfterClose>>
    /\ UNCHANGED <<exportVars, mergeVars, libVars>>

BrowserAfterFinally_OnSuccessOnly ==
    IF browser = "open" /\ err = "none" THEN "closed" ELSE browser

\* The browser after the finally block: closed if one was launched.
BrowserAfterFinally == IF browser = "open" THEN "closed" ELSE browser

\* finally: close the browser if this.browser is set; export then settles.
Finally ==
    /\ pc = "finally"
    /\ browser' = BrowserAfterFinally
    /\ settled' = IF err = "none" THEN "resolved" ELSE "rejected"
    /\ pc' = "settled"
    /\ UNCHANGED <<tempDir, cleanTempFiles, err, cause, opsAfterClose>>
    /\ UNCHANGED <<exportVars, mergeVars, libVars>>

\* ------------------------------------------------------- initial states

ExportIdle ==
    /\ epc = "idle" /\ urls = << >> /\ ei = 0 /\ exportedFiles = << >>
    /\ currentPageIndex = 0 /\ outcomes = << >> /\ lastPage = NoPage

MergeIdle ==
    /\ mpc = "idle" /\ metadata = << >> /\ mi = 0 /\ pages = << >>
    /\ pageOffset = 0 /\ loads = << >> /\ outputFile = "none"
    /\ catalogOutlines = "none"

OrchIdle ==
    /\ pc = "idle" /\ browser = "open" /\ tempDir = "exists"
    /\ cleanTempFiles = TRUE /\ settled = "pending" /\ err = "none"
    /\ cause = "none"
    /\ opsAfterClose = FALSE

BookmarkIdle ==
    /\ bpc = "idle" /\ bmMeta = << >> /\ bmPages = 0 /\ bRec = 1 /\ bHead = 0
    /\ bookmarkInfos = << >> /\ stack = << >> /\ bi = 0 /\ dicts = << >>
    /\ opc = "idle" /\ outlinesDict = NoOutlines

SidebarIdle ==
    /\ spc = "idle" /\ parentOf = << >> /\ expandedSet = {}
    /\ scopedQuirk = FALSE /\ frames = << >> /\ anyFailure = FALSE
    /\ hiddenClicked = FALSE /\ slowPage = FALSE /\ pending = 0

ClickIdle ==
    /\ cpc = "idle" /\ strategies = << >> /\ si = 0 /\ attempts = << >>

CollectorIdle ==
    /\ lpc = "idle" /\ anchors = << >> /\ markersFound = "unknown"
    /\ hrefs = << >> /\ lerr = "none" /\ lfail = "none"

\* export() is called on a fresh DocusaurusPdfExporter.
Init ==
    /\ pc = "start" /\ browser = "null" /\ tempDir = "null"
    /\ cleanTempFiles \in BOOLEAN
    /\ settled = "pending" /\ err = "none" /\ cause = "none"
    /\ opsAfterClose = FALSE
    /\ ExportIdle /\ MergeIdle /\ BookmarkIdle /\ SidebarIdle /\ CollectorIdle
    /\ ClickIdle

Next ==
    \/ Initialize
    \/ VerifyDocusaurusRunning
    \/ CreateTempDirectory
    \/ CollectAllLinks
    \/ ExportPagesStep
    \/ ExportPagesReturn
    \/ AfterExportPages
    \/ MergeCheck
    \/ MergeArtifact
    \/ MergeLoopEnd
    \/ MergeSave
    \/ AfterMerge
    \/ Cleanup
    \/ Finally

Spec == Init /\ [][Next]_vars

\* exportPages called on any URL list.
InitExportPages ==
    /\ OrchIdle /\ MergeIdle /\ BookmarkIdle /\ SidebarIdle /\ CollectorIdle
    /\ ClickIdle
    /\ epc = "loop" /\ urls \in SeqsUpTo(Urls, MaxUrls) /\ ei = 0
    /\ exportedFiles = << >> /\ currentPageIndex = 0 /\ outcomes = << >>
    /\ lastPage = NoPage

NextExportPages == ExportPagesStep \/ ExportPagesReturn

SpecExportPages == InitExportPages /\ [][NextExportPages]_vars

\* exportPages called on a short URL list, each page's behaviour kept.
InitListing ==
    /\ OrchIdle /\ MergeIdle /\ BookmarkIdle /\ SidebarIdle /\ CollectorIdle
    /\ ClickIdle
    /\ epc = "loop" /\ urls \in SeqsUpTo(Urls, MaxLinks) /\ ei = 0
    /\ exportedFiles = << >> /\ currentPageIndex = 0 /\ outcomes = << >>
    /\ lastPage = NoPage

NextListing == ExportPagesStepKept \/ ExportPagesReturn

SpecListing == InitListing /\ [][NextListing]_vars

\* The lists exportPages hands to merge: records with consecutive page
\* indices, each with the headings of its page.
MergeInputs ==
    UNION {{[k \in 1..n |-> [path |-> k - 1, headings |-> h[k], url |-> "u1",
                             pageIndex |-> k - 1]]
            : h \in [1..n -> HeadingChoices]}
           : n \in 0..MaxArtifacts}

\* merge called on any list exportPages can return, and on the empty list.
InitMerge ==
    /\ OrchIdle /\ ExportIdle /\ BookmarkIdle /\ SidebarIdle /\ CollectorIdle
    /\ ClickIdle
    /\ mpc = "check"
    /\ metadata \in MergeInputs
    /\ mi = 0 /\ pages = << >> /\ pageOffset = 0 /\ loads = << >>
    /\ outputFile = "none" /\ catalogOutlines = "none"

NextMerge == MergeCheck \/ MergeArtifact \/ MergeLoopEnd \/ MergeSave

SpecMerge == InitMerge /\ [][NextMerge]_vars

\* The metadata handed to the builder: two records, the headings split
\* between them at any point; the second is out of range when the document
\* has one page.
BookmarkInputs ==
    UNION {{<<[pageIndex |-> 0, headings |-> SubSeq(hs, 1, cut)],
              [pageIndex |-> 1, headings |-> SubSeq(hs, cut + 1, Len(hs))]>>
            : cut \in 0..Len(hs)}
           : hs \in SeqsUpTo(1..MaxLevel, MaxHeadings)}

\* buildBookmarkHierarchy called on any such metadata.
InitBookmark ==
    /\ OrchIdle /\ ExportIdle /\ MergeIdle /\ SidebarIdle /\ CollectorIdle
    /\ ClickIdle
    /\ bpc = "first"
    /\ bmMeta \in BookmarkInputs
    /\ bmPages \in {1, 2}
    /\ bRec = 1 /\ bHead = 0
    /\ bookmarkInfos = << >> /\ stack = << >> /\ bi = 0 /\ dicts = << >>
    /\ opc = "idle" /\ outlinesDict = NoOutlines

NextBookmark == BmFirstPass \/ BmFirstPassEnd \/ BmSecondPass \/ BmReturn

SpecBookmark == InitBookmark /\ [][NextBookmark]_vars

\* createOutlines called on any such metadata.
InitOutlines ==
    /\ OrchIdle /\ ExportIdle /\ MergeIdle /\ SidebarIdle /\ CollectorIdle
    /\ ClickIdle
    /\ bpc = "first"
    /\ bmMeta \in BookmarkInputs
    /\ bmPages \in {1, 2}
    /\ bRec = 1 /\ bHead = 0
    /\ bookmarkInfos = << >> /\ stack = << >> /\ bi = 0 /\ dicts = << >>
    /\ opc = "build" /\ outlinesDict = NoOutlines

NextOutlines ==
    \/ BmFirstPass \/ BmFirstPassEnd \/ BmSecondPass \/ BmReturn
    \/ CoThrow \/ CoRoots \/ CoParents \/ CoCatalog

SpecOutlines == InitOutlines /\ [][NextOutlines]_vars

\* Parent sequences that number a forest of n categories in document order:
\* a node's parent is the node before it or one of that node's ancestors, or
\* none.
NavTreesOf(n) ==
    {p \in [1..n -> 0..(n - 1)] :
        \A c \in 1..n :
           /\ p[c] < c
           /\ c > 1 => p[c] \in {0, c - 1} \cup NavAncestors(p, c - 1)}

NavTrees == UNION {NavTreesOf(n) : n \in 1..MaxNodes}

\* expandAll called on any navigation tree in any expansion state.
InitSidebar ==
    /\ OrchIdle /\ ExportIdle /\ MergeIdle /\ BookmarkIdle /\ CollectorIdle
    /\ ClickIdle
    /\ spc = "js1"
    /\ parentOf \in NavTrees
    /\ expandedSet \in SUBSET (1..Len(parentOf))
    /\ scopedQuirk \in BOOLEAN
    /\ frames = << >>
    /\ anyFailure = FALSE
    /\ hiddenClicked = FALSE /\ slowPage = FALSE /\ pending = 0

NextSidebar == SbBulk \/ SbManualStart \/ SbItem \/ SbReturn

SpecSidebar == InitSidebar /\ [][NextSidebar]_vars

\* expandAll called on a page that may apply the effect of a click later
\* than the wait that follows the click.
InitSlowPage ==
    /\ OrchIdle /\ ExportIdle /\ MergeIdle /\ BookmarkIdle /\ CollectorIdle
    /\ ClickIdle
    /\ spc = "js1"
    /\ parentOf \in UNION {NavTreesOf(n) : n \in 1..MaxCategories}
    /\ expandedSet \in SUBSET (1..Len(parentOf))
    /\ scopedQuirk \in BOOLEAN
    /\ frames = << >>
    /\ anyFailure = FALSE
    /\ hiddenClicked = FALSE /\ slowPage = TRUE /\ pending = 0

NextSlowPage == SbBulk \/ SbManualStart \/ SbItem \/ SbReturn \/ SbLateEffect

SpecSlowPage == InitSlowPage /\ [][NextSlowPage]_vars

\* The anchors of a page with n categories: each under a category or under
\* none, an anchor never coming before one of an earlier category unless
\* that category encloses its own.
AnchorLists(p) ==
    {as \in SeqsUpTo([href : Urls, under : 0..Len(p)], MaxAnchors) :
        \A k \in 1..(Len(as) - 1) :
           \/ as[k].under = 0 \/ as[k + 1].under = 0
           \/ as[k].under <= as[k + 1].under
           \/ as[k + 1].under \in NavAncestors(p, as[k].under)}

\* collectAllLinks called on any page: with or without categories, in any
\* expansion state, with any anchors.
InitCollector ==
    /\ OrchIdle /\ ExportIdle /\ MergeIdle /\ BookmarkIdle
    /\ lpc = "goto"
    /\ parentOf \in UNION {NavTreesOf(n) : n \in 0..MaxCategories}
    /\ expandedSet \in SUBSET (1..Len(parentOf))
    /\ scopedQuirk \in BOOLEAN
    /\ anchors \in AnchorLists(parentOf)
    /\ spc = "idle" /\ frames = << >> /\ anyFailure = FALSE
    /\ hiddenClicked = FALSE /\ slowPage = FALSE /\ pending = 0
    /\ markersFound = "unknown" /\ hrefs = << >>
    /\ lerr = "none" /\ lfail = "none"
    /\ ClickIdle

NextCollector ==
    \/ LcGoto
    \/ LcWaitForSelector
    \/ CollectLinksAlternative
    \/ LcEnterExpandAll
    \/ SbBulk
    \/ SbManualStart
    \/ SbItem
    \/ SbReturn
    \/ LcExtract

SpecCollector == InitCollector /\ [][NextCollector]_vars

\* collectAllLinks called on any page with at most one content link: the
\* anchors take part in no condition of the collector or the expander.
InitTermination ==
    /\ OrchIdle /\ ExportIdle /\ MergeIdle /\ BookmarkIdle
    /\ lpc = "goto"
    /\ parentOf \in UNION {NavTreesOf(n) : n \in 0..MaxCategories}
    /\ expandedSet \in SUBSET (1..Len(parentOf))
    /\ scopedQuirk \in BOOLEAN
    /\ anchors \in {as \in AnchorLists(parentOf) : Len(as) <= 1}
    /\ spc = "idle" /\ frames = << >> /\ anyFailure = FALSE
    /\ hiddenClicked = FALSE /\ slowPage = FALSE /\ pending = 0
    /\ markersFound = "unknown" /\ hrefs = << >>
    /\ lerr = "none" /\ lfail = "none"
    /\ ClickIdle

\* Every await of collectAllLinks and of the expander settles, by return or
\* by throw, within its timeout, so the function always takes its next
\* step.
SpecTermination ==
    InitTermination /\ [][NextCollector]_vars /\ WF_vars(NextCollector)

\* clickWithRetry called under any configured strategy list.
InitClick ==
    /\ OrchIdle /\ ExportIdle /\ MergeIdle /\ BookmarkIdle /\ SidebarIdle
    /\ CollectorIdle
    /\ cpc = "loop"
    /\ strategies \in SeqsUpTo(StrategyNames, MaxStrategies)
    /\ si = 0 /\ attempts = << >>

NextClick == ClickTry \/ ClickLoopEnd

SpecClick == InitClick /\ [][NextClick]_vars

\* ---------------------------------------------------------------- claims

\* The positions of s that hold x, in increasing order.
RECURSIVE PositionsOf(_, _, _)
PositionsOf(s, x, from) ==
    IF from > Len(s) THEN << >>
    ELSE IF s[from] = x THEN <<from>> \o PositionsOf(s, x, from + 1)
    ELSE PositionsOf(s, x, from + 1)

ExportedPositions == PositionsOf(outcomes, "exported", 1)

\* C1: the records exportPages returns carry pageIndex 0, 1, ..., n-1 in
\* order with no gaps, n being the number of exported URLs: the k-th record
\* has pageIndex k-1 whatever its URL's position, and M URLs of which K are
\* skipped or fail yield exactly M-K records.
C1_PageIndexSequential ==
    /\ \A k \in 1..Len(exportedFiles) : exportedFiles[k].pageIndex = k - 1
    /\ Len(exportedFiles) = Len(ExportedPositions)
    /\ epc = "done" =>
         Len(exportedFiles) =
           Len(urls) - Cardinality({j \in 1..Len(outcomes) : outcomes[j] # "exported"})

\* A skip, then two exports: the exports take indices 0 and 1.
C1_Witness ==
    /\ epc = "done"
    /\ outcomes = <<"skipped", "exported", "exported">>
    /\ exportedFiles[1].path = 1 /\ exportedFiles[1].pageIndex = 0
    /\ exportedFiles[2].path = 2 /\ exportedFiles[2].pageIndex = 1

\* The first k loads' page counts.
LoadsBefore(k) == SumSeq(SubSeq(loads, 1, k - 1))

AllLoaded == \A k \in 1..Len(loads) : loads[k] > 0

\* C2: when every artifact loads and copies, with page counts p1..pN, the
\* output has exactly p1+...+pN pages and the i-th record's pageIndex is
\* p1+...+p(i-1), for every N >= 1.
C2_MergeOffsets ==
    (mpc \in {"save", "done"} /\ AllLoaded) =>
        /\ Len(pages) = SumSeq(loads)
        /\ \A i \in 1..Len(metadata) : metadata[i].pageIndex = LoadsBefore(i)

\* Three artifacts of 2, 1 and 2 pages merged: offsets 0, 2, 3.
C2_Witness ==
    /\ mpc = "done"
    /\ loads = <<2, 1, 2>>
    /\ metadata[3].pageIndex = 3
    /\ Len(pages) = 5

\* C3: exportPages attempts every URL exactly once, in input order; a thrown
\* failure never prevents a later attempt and never makes exportPages
\* reject; the returned list is exactly the subsequence of the URLs that
\* exported, in input order.
C3_EveryUrlAttempted ==
    /\ epc # "rejected"
    /\ Len(outcomes) = ei
    /\ ei <= Len(urls)
    /\ epc = "done" => Len(outcomes) = Len(urls)
    /\ Len(exportedFiles) = Len(ExportedPositions)
    /\ \A k \in 1..Len(exportedFiles) :
         /\ exportedFiles[k].path = ExportedPositions[k] - 1
         /\ exportedFiles[k].url = urls[ExportedPositions[k]]

\* The first URL throws and the two after it are still exported.
C3_Witness ==
    /\ epc = "done"
    /\ urls = <<"u1", "u2", "u1">>
    /\ outcomes = <<"failed", "exported", "exported">>
    /\ exportedFiles[1].url = "u2"
    /\ exportedFiles[2].url = "u1"

\* The pages of the first k artifacts that loaded, in input order.
RECURSIVE PagesOfLoaded(_)
PagesOfLoaded(k) ==
    IF k = 0 THEN << >>
    ELSE PagesOfLoaded(k - 1) \o [j \in 1..loads[k] |-> <<metadata[k].path, j>>]

\* C4: an artifact that fails to load or copy contributes no page and does
\* not stop the merge: the output's pages are the concatenation, in input
\* order, of the pages of exactly the artifacts that loaded, and the running
\* offset is advanced only by those.
C4_FailedArtifactSkipped ==
    /\ Len(loads) = mi
    /\ pages = PagesOfLoaded(mi)
    /\ pageOffset = SumSeq(loads)
    /\ mpc \in {"save", "done"} => mi = Len(metadata)
    /\ mpc = "rejected" => (Len(metadata) = 0 \/ mi = Len(metadata))

\* The middle artifact of three fails; the third lands right after the first.
C4_Witness ==
    /\ mpc = "done"
    /\ Len(loads) = 3
    /\ loads[1] = 2 /\ loads[2] = 0 /\ loads[3] = 1
    /\ metadata[3].pageIndex = 2
    /\ pages = <<<<0, 1>>, <<0, 2>>, <<2, 1>>>>

\* The levels of the nodes built so far, in heading order.
NodeLevels == [k \in 1..Len(bookmarkInfos) |-> bookmarkInfos[k].level]

\* The parent the outline rule gives the k-th heading (1-based) of a level
\* sequence: the latest earlier heading one level up with no heading of a
\* level above that one in between; as a 0-based index, or Undef.
ExpectedParent(lv, k) ==
    LET cands == {j \in 1..(k - 1) :
                    /\ lv[j] = lv[k] - 1
                    /\ \A m \in (j + 1)..(k - 1) : lv[m] >= lv[k] - 1}
    IN IF lv[k] = 1 \/ cands = {} THEN Undef
       ELSE (CHOOSE j \in cands : \A x \in cands : x <= j) - 1

\* The nodes reached from x by Next links, x first; at most n of them.
RECURSIVE ChainFrom(_, _)
ChainFrom(x, n) ==
    IF x = Undef \/ n = 0 THEN << >>
    ELSE <<x>> \o ChainFrom(dicts[x + 1].Next, n - 1)

ChildChain(p) == ChainFrom(dicts[p + 1].First, Len(dicts) + 1)

ChildrenOf(p) == {c \in 0..(Len(bookmarkInfos) - 1) : bookmarkInfos[c + 1].parentIndex = p}

\* Levels that start at 1 and never skip a level on the way down.
WellFormed(lv) ==
    /\ Len(lv) > 0 => lv[1] = 1
    /\ \A k \in 2..Len(lv) : lv[k] <= lv[k - 1] + 1

BackLinked(c) ==
    /\ dicts[c + 1].Prev # Undef
    /\ dicts[dicts[c + 1].Prev + 1].Next = c

\* C6: for a heading sequence whose levels go one level down or back to an
\* ancestor level, the built outline is consistent: from every node, First
\* and then Next visit exactly Count children and end at Last, each visited
\* child has the node as Parent, and every node that is not a first child
\* (or the first root) has a Prev whose Next is that node.
C6_OutlineConsistent ==
    (bpc = "done" /\ WellFormed(NodeLevels)) =>
        /\ \A p \in 0..(Len(dicts) - 1) :
             LET ch == ChildChain(p) IN
             /\ Len(ch) = dicts[p + 1].Count
             /\ {ch[k] : k \in 1..Len(ch)} = ChildrenOf(p)
             /\ \A k \in 1..Len(ch) : dicts[ch[k] + 1].Parent = p
             /\ IF Len(ch) = 0
                THEN dicts[p + 1].First = Undef /\ dicts[p + 1].Last = Undef
                ELSE dicts[p + 1].Last = ch[Len(ch)]
        /\ \A c \in 0..(Len(dicts) - 1) :
             LET p == bookmarkInfos[c + 1].parentIndex IN
             IF p # Undef
             THEN dicts[p + 1].First # c => BackLinked(c)
             ELSE c # 0 => BackLinked(c)

\* Headings 1, 2, 2: the first node has two children chained by Next.
C6_Witness ==
    /\ bpc = "done"
    /\ NodeLevels = <<1, 2, 2>>
    /\ dicts[1].Count = 2 /\ dicts[1].First = 1 /\ dicts[1].Last = 2
    /\ dicts[2].Next = 2 /\ dicts[3].Prev = 1

\* C7: the parent of a heading at level L > 1 is the most recent earlier
\* heading at level L-1 not closed by a later heading of a level below L-1,
\* and the heading is a root when L = 1 or there is none; after a heading at
\* level L is processed the stack holds it at level L and nothing deeper.
C7_ParentFromStack ==
    /\ \A k \in 1..Len(bookmarkInfos) :
         bookmarkInfos[k].parentIndex = ExpectedParent(NodeLevels, k)
    /\ Len(bookmarkInfos) > 0 =>
         LET L == bookmarkInfos[Len(bookmarkInfos)].level IN
         /\ Len(stack) >= L
         /\ stack[L] = Len(bookmarkInfos) - 1
         /\ \A d \in (L + 1)..Len(stack) : stack[d] = Undef

\* Headings 2, 1, 3: the level-2 node is closed by the level-1 heading, so
\* the level-3 node is a root.
C7_Witness ==
    /\ bpc = "done"
    /\ NodeLevels = <<2, 1, 3>>
    /\ bookmarkInfos[3].parentIndex = Undef
    /\ stack = <<1, Undef, 2>>

\* The step-wise passes compute what the whole function computes.
BuilderAgrees ==
    bpc = "done" =>
        /\ bookmarkInfos = BuildInfos(bmMeta, bmPages)
        /\ dicts = BuildDicts(bmMeta, bmPages)

\* C8: n single-page artifacts, each with exactly one level-1 heading,
\* merged: the output has n pages and carries an outline of n roots in page
\* order, each without children, root i on page i, consecutive roots linked
\* by Next and Prev.
C8_OutlineOfSinglePages ==
    (/\ mpc = "done"
     /\ \A k \in 1..Len(metadata) : loads[k] = 1 /\ metadata[k].headings = <<1>>) =>
        LET n == Len(metadata)
            infos == BuildInfos(metadata, Len(pages))
            ds == BuildDicts(metadata, Len(pages))
        IN /\ Len(pages) = n
           /\ catalogOutlines = "set"
           /\ RootBookmarks(infos) = [k \in 1..n |-> k - 1]
           /\ \A k \in 1..n :
                /\ infos[k].page = k - 1
                /\ ds[k].Count = 0
                /\ k < n => ds[k].Next = k /\ ds[k + 1].Prev = k - 1

\* C9: on every exit path of export a browser that was launched is closed
\* before export settles, and no page operation is issued after the close.
C9_BrowserClosed ==
    /\ settled # "pending" => browser # "open"
    /\ browser = "closed" => pc = "settled"
    /\ ~opsAfterClose

\* export rejects with the merge's error and the launched browser is closed.
C9_Witness ==
    /\ settled = "rejected"
    /\ err = "PdfMergeError"
    /\ browser = "closed"
    /\ Len(exportedFiles) = 2

\* C10: with cleanup enabled, whenever export settles, resolved or rejected,
\* the temporary directory this run created no longer exists.
C10_TempDirRemoved ==
    (cleanTempFiles /\ settled # "pending") => tempDir # "exists"

\* C5: for every finite navigation tree whose nodes' children are in the
\* DOM only once the node is expanded, with every control visible and every
\* interaction succeeding, every collapsible node at every depth is expanded
\* when expandAll returns.
C5_AllExpanded ==
    (spc = "done" /\ ~anyFailure) => NavNodes \subseteq expandedSet

\* C11: whenever export rejects, no file has been written at the output path
\* by this run; a file written by this run exists only if export resolves.
C11_NoOutputOnReject ==
    settled = "rejected" => outputFile = "none"

\* The classes of utils/errors: ExportError and its subclasses.
TypedErrors ==
    {"ExportError", "SidebarError", "LinkCollectionError", "PdfExportError",
     "PdfMergeError"}

\* C12: every error export rejects with is an ExportError or one of its
\* subclasses, whichever stage failed.
C12_TypedErrors ==
    settled = "rejected" => err \in TypedErrors

\* exportPages has returned within export().
PastExportPages ==
    epc = "done" /\ pc \in {"merge", "cleanup", "finally", "settled"}

\* C13: when exportPages returns no record, export rejects with an
\* ExportError, merge is never entered and no output file is written; when it
\* returns at least one record, merge is entered whatever happened to the
\* other URLs, and export can then only fail in the merge's final write or in
\* the removal of the temporary directory.
C13_ZeroPagesFatal ==
    /\ (PastExportPages /\ Len(exportedFiles) = 0) =>
          /\ err = "ExportError" /\ cause = "none"
          /\ mpc = "idle" /\ loads = << >> /\ outputFile = "none"
          /\ settled # "resolved"
    /\ (PastExportPages /\ Len(exportedFiles) > 0) =>
          /\ mpc # "idle"
          /\ metadata # << >>
          /\ err \in {"none", "PdfMergeError", "Error"}
          /\ err = "PdfMergeError" => mpc = "rejected" /\ Len(loads) = Len(metadata)
          /\ err = "Error" => mpc = "done" /\ cleanTempFiles

\* Two URLs, one skipped and one failed: export rejects, merge never ran.
C13_Witness ==
    /\ settled = "rejected"
    /\ outcomes = <<"skipped", "failed">>
    /\ err = "ExportError"
    /\ mpc = "idle"

\* C14: merge rejects exactly when its list is empty or the final write
\* (directory, save, writeFileSync) fails. With an empty list it rejects
\* having read no artifact and written nothing; with a non-empty one it has
\* gone through every artifact, whichever failed to load, before it settles,
\* and it returns only with the output written.
C14_MergeRejects ==
    /\ mpc = "rejected" =>
         \/ /\ Len(metadata) = 0
            /\ mi = 0 /\ loads = << >> /\ pages = << >> /\ outputFile = "none"
         \/ /\ Len(metadata) > 0
            /\ Len(loads) = Len(metadata)
            /\ outputFile # "written"
    /\ mpc = "done" =>
         /\ Len(metadata) > 0
         /\ Len(loads) = Len(metadata)
         /\ outputFile = "written"
    /\ mpc \in {"loop", "save"} => Len(metadata) > 0

\* Both artifacts fail to load and merge still returns.
C14_Witness ==
    /\ mpc = "done"
    /\ loads = <<0, 0>>
    /\ outputFile = "written"

\* C15: expandAll returns normally whatever page operations fail.
C15_AlwaysReturns ==
    spc # "rejected"

\* The item the innermost loop of the recursive pass is at.
CurrentItem == ItemAt(frames, expandedSet, Len(frames))

\* The step in which the node at hand fails: it is collapsed (or gone), its
\* loop is not over, and the step leaves every node as it was.
NodeFails ==
    /\ frames[Len(frames)].i < frames[Len(frames)].count
    /\ CurrentItem \notin expandedSet
    /\ expandedSet' = expandedSet

C17_NoDuplicates ==
    lpc = "done" =>
        \A i, j \in 1..Len(hrefs) : i # j => hrefs[i] # hrefs[j]

\* C18: once the base page has loaded, a throw of the anchor extraction, on
\* the main path or on the fallback path, does not make collectAllLinks
\* reject.
C18_ExtractionThrowReturns ==
    lfail = "extract" => lpc # "rejected"

\* C19: when the top-level markers do not appear, collectAllLinks goes
\* straight to the flat extraction over the document as it stands and
\* expandAll is never entered; when they appear, the list is extracted only
\* after expandAll has returned, from the DOM it left.
C19_FallbackOrExpand ==
    /\ markersFound = "no" =>
         /\ spc = "idle" /\ frames = << >>
         /\ lpc \in {"alt", "done", "rejected"}
         /\ lpc = "done" => hrefs = Hrefs(expandedSet)
         /\ lpc = "rejected" => lfail = "extract"
    /\ (markersFound = "yes" /\ lpc = "done") =>
         /\ spc = "done"
         /\ hrefs = Hrefs(expandedSet)
    /\ hrefs # << >> => lpc = "done"
    /\ lpc \in {"goto", "waitSel", "count"} => spc = "idle"

\* A page with a collapsed category and an anchor outside it: the markers
\* time out, the flat extraction returns that anchor, the expander idle.
C19_Witness ==
    /\ lpc = "done"
    /\ markersFound = "no"
    /\ Len(parentOf) > 0 /\ expandedSet = {}
    /\ Len(hrefs) = 1
    /\ spc = "idle"

\* C20: when the reachability check fails, export unwinds with an
\* ExportError whose cause is the navigation error; no temporary directory
\* is created, no link collected, no page rendered, nothing merged, and
\* export settles rejected with the browser closed.
C20_UnreachableSite ==
    (err = "ExportError" /\ cause = "navigation") =>
        /\ pc \in {"finally", "settled"}
        /\ tempDir = "null"
        /\ epc = "idle" /\ urls = << >> /\ outcomes = << >>
        /\ mpc = "idle" /\ loads = << >> /\ outputFile = "none"
        /\ pc = "settled" => settled = "rejected" /\ browser = "closed"

\* The site is unreachable: export has rejected, the browser is closed.
C20_Witness ==
    /\ settled = "rejected"
    /\ err = "ExportError" /\ cause = "navigation"
    /\ browser = "closed"
    /\ tempDir = "null"

\* The behaviour of the page attempted last has been kept.
PageKept == DOMAIN lastPage # DOMAIN NoPage

\* The URL attempted last was skipped as a listing page.
LastSkipped == outcomes[ei] = "skipped"

\* C21 (as the code has it): a page that has loaded is classified as a
\* listing page exactly when both counts were obtained, the document-card
\* count is positive and it equals the content-block count; a page so
\* classified is skipped: no record is pushed for it and no page index is
\* consumed.
C21_ListingPageSkipped ==
    (ei > 0 /\ PageKept) =>
        /\ LastSkipped <=>
             (/\ lastPage.gotoOk /\ lastPage.countOk
              /\ lastPage.cards > 0 /\ lastPage.cards = lastPage.blocks)
        /\ LastSkipped =>
             /\ \A k \in 1..Len(exportedFiles) : exportedFiles[k].path # ei - 1
             /\ currentPageIndex = Len(ExportedPositions)
             /\ currentPageIndex = Len(exportedFiles)

\* C21 (as stated): a loaded page whose counts were obtained is skipped
\* exactly when the two counts are equal, the pair (0, 0) included.
C21_EqualCountsSkipped ==
    (ei > 0 /\ PageKept /\ lastPage.gotoOk /\ lastPage.countOk) =>
        (LastSkipped <=> lastPage.cards = lastPage.blocks)

\* The second URL is a page of one card and one block: it is skipped, and
\* the first URL's record is the only one.
C21_Witness ==
    /\ ei = 2
    /\ PageKept
    /\ lastPage.gotoOk /\ lastPage.countOk
    /\ lastPage.cards = 1 /\ lastPage.blocks = 1
    /\ outcomes = <<"exported", "skipped">>
    /\ Len(exportedFiles) = 1

\* C22: for every configured strategy list, clickWithRetry returns normally
\* only if the interaction of some strategy succeeded, and throws when none
\* did.
C22_ReturnsOnlyOnSuccess ==
    cpc = "returned" => \E k \in 1..Len(attempts) : attempts[k].ok

\* C23: at every nesting level, the top level included, no click strategy
\* is invoked on a collapsed node whose control is still not visible after
\* the scroll attempt.
C23_HiddenNeverClicked ==
    ~hiddenClicked

\* C28: expandAll never collapses a node: while it runs no node leaves the
\* set of expanded nodes, also on a page that applies the effect of a bulk
\* click after a delay.
C28_NeverCollapses ==
    [][expandedSet \subseteq expandedSet']_vars

\* The level stack as it stands when the k-th node (0-based) is about to be
\* inserted: the stack updates of the nodes before it, replayed in order.
RECURSIVE StackBefore(_, _)
StackBefore(lv, k) ==
    IF k = 0 THEN << >>
    ELSE UpdateStack(StackBefore(lv, k - 1), lv[k], k - 1)

\* The node the stack holds at node i's own level when i is inserted, if
\* that node has node i's parent; Undef when the slot is empty or cleared.
SlotSibling(i) ==
    LET st == StackBefore(NodeLevels, i)
        L == bookmarkInfos[i + 1].level
    IN IF DefinedAt(st, L)
          /\ bookmarkInfos[st[L] + 1].parentIndex = bookmarkInfos[i + 1].parentIndex
       THEN st[L] ELSE Undef

\* C24: for every heading sequence, the previous sibling assigned to a node
\* is the node the level stack held at that level, with the same parent,
\* when the heading was inserted, and is absent when that slot had been
\* cleared; two parent-less nodes of one level > 1 separated by a shallower
\* heading are not linked.
C24_PrevIsStackSlot ==
    bpc = "done" =>
        \A i \in 0..(Len(dicts) - 1) : dicts[i + 1].Prev = SlotSibling(i)

\* C25: for every heading sequence with levels in 1..6, those that start
\* below level 1 or skip levels included, every root node is a top-level
\* entry of the outline createOutlines sets: Count is the number of roots,
\* and Next links from First visit every root once, in order, ending at
\* Last.
C25_RootsChained ==
    (opc = "returned" /\ catalogOutlines = "set") =>
        LET roots == RootBookmarks(bookmarkInfos) IN
        /\ outlinesDict.Count = Len(roots)
        /\ ChainFrom(outlinesDict.First, Len(dicts) + 1) = roots
        /\ outlinesDict.Last = roots[Len(roots)]

\* The pages the nodes target, in node order.
NodePages == [k \in 1..Len(bookmarkInfos) |-> bookmarkInfos[k].page]

\* Per heading of the records in range, in order, its record's pageIndex.
HeadingPages ==
    LET flat == FlatHeadings(bmMeta, bmPages, 1) IN
    [k \in 1..Len(flat) |-> flat[k].page]

\* C29: createOutlines never throws, and sets the catalog's outline entry
\* only as its last step: after a failure of any step the catalog has no
\* outline entry; when no record contributes a heading no outline is set;
\* a record with no headings contributes no node, and the nodes of the other
\* records target their own record's page index.
C29_AllOrNothing ==
    /\ opc # "threw"
    /\ opc = "caught" => catalogOutlines = "none"
    /\ catalogOutlines = "set" =>
         /\ opc = "returned"
         /\ outlinesDict.Count > 0
         /\ outlinesDict.First # Undef /\ outlinesDict.Last # Undef
         /\ \A r \in 0..(Len(dicts) - 1) :
              bookmarkInfos[r + 1].parentIndex = Undef =>
                  dicts[r + 1].Parent = OutlinesRef
    /\ (opc = "returned" /\ Len(bookmarkInfos) = 0) =>
         (catalogOutlines = "none" /\ outlinesDict = NoOutlines)
    /\ bpc = "done" => NodePages = HeadingPages

\* The first record has no heading and the second has two: a step fails
\* after the outlines dictionary was created, the function returns through
\* its catch block and the catalog has no outline entry.
C29_Witness ==
    /\ opc = "caught"
    /\ bmPages = 2
    /\ Len(bmMeta[1].headings) = 0 /\ Len(bmMeta[2].headings) = 2
    /\ NodePages = <<1, 1>>
    /\ outlinesDict.Count > 0
    /\ catalogOutlines = "none"

\* The number of headings over all records of the merged list.
TotalHeadings ==
    SumSeq([k \in 1..Len(metadata) |-> Len(metadata[k].headings)])

\* C26: for every metadata list a merge produces, merges in which some
\* artifacts failed to load included, buildBookmarkHierarchy builds one node
\* per heading: as many nodes as there are headings over all records.
C26_OneNodePerHeading ==
    mpc \in {"save", "done"} =>
        Len(BuildInfos(metadata, Len(pages))) = TotalHeadings

\* C27: after merge, under every pattern of load failures, the pageIndex of
\* a record whose artifact loaded is the output index of that artifact's
\* first page, and a record whose artifact failed yields no bookmark that
\* targets a page of another artifact.
C27_BookmarksTargetOwnPages ==
    mpc \in {"save", "done"} =>
        \A k \in 1..Len(metadata) :
            IF loads[k] > 0
            THEN /\ metadata[k].pageIndex < Len(pages)
                 /\ pages[metadata[k].pageIndex + 1] = <<metadata[k].path, 1>>
            ELSE Len(metadata[k].headings) > 0 =>
                     metadata[k].pageIndex >= Len(pages)

\* The recursive pass's calls in progress are at strictly increasing levels,
\* one level apart, and no deeper than the tree allows.
LevelsIncrease ==
    /\ \A k \in 1..(Len(frames) - 1) : frames[k + 1].level = frames[k].level + 1
    /\ Len(frames) <= Len(parentOf) + 1

\* C30: on every finite navigation tree, when every page operation returns
\* or throws, each recursive call of the expander is at a strictly greater
\* level than its caller's, and the link collection eventually returns or
\* rejects.
C30_Terminates ==
    /\ []LevelsIncrease
    /\ <>(lpc \in {"done", "rejected"})

\* A category with a sub-category: the collection has returned, the
\* expander having finished with both expanded.
C30_Witness ==
    /\ lpc = "done"
    /\ spc = "done"
    /\ parentOf = <<0, 1>>
    /\ expandedSet = {1, 2}

\* C31: whenever export resolves, the document merge wrote holds at least
\* one page, whatever set of exported artifacts failed to load during the
\* merge.
C31_ResolvedOutputHasPages ==
    settled = "resolved" => (outputFile = "written" /\ Len(pages) >= 1)

====
